---- MODULE Spec2Model ----
(***************************************************************************)
(* State-machine model of the audio assembly layer of the K-pop radio      *)
(* generator: AudioStitcher (audio_stitcher.py), SimpleAudioStitcher       *)
(* (simple_stitcher.py), the production pipeline of SoundEffectsManager    *)
(* (sound_effects.py), its effect builders, and the command-line run       *)
(* (main.py).                                                              *)
(*                                                                         *)
(* pydub is the environment of the program: its operations are modelled    *)
(* by their documented behaviour on lengths (concatenation adds, overlay   *)
(* keeps the length of the base, a slice is clamped, a fade keeps the      *)
(* length, a negative duration is refused).                                *)
(*                                                                         *)
(* Durations are in milliseconds.  A file name is a record                 *)
(* [stem, ext] (stem: the sequence of "_"-joined parts), a path a record   *)
(* [dir, name].                                                            *)
(***************************************************************************)
EXTENDS Integers, Sequences, FiniteSets, TLC

\* ------------------------------------------------------------- bounds
MaxDur == 2
MaxBytes == 2
MaxOff == 11

\* ---------------------------------------------------- program constants
segment_order == <<"intro", "top_songs", "fan_mail">>
silence_duration == 1000
ExtraRoles == {"outro"}
OrderRoles == {segment_order[k] : k \in 1..Len(segment_order)}
AllRoles == OrderRoles \cup ExtraRoles

VARIABLES
    mode,           \* which entry point this run exercises
    pc,             \* position of the run
    pydub,          \* PYDUB_AVAILABLE: the audio engine can be imported
    audio_files,    \* dict role -> path, as the sequence of its items
    out_name,       \* output_filename argument of stitch_segments
    add_silence,    \* add_silence argument of stitch_segments
    io,             \* outcome of this run's writes (environment)
    fs,             \* files written by the program: path -> content
    result,         \* value returned by stitch_segments
    results,        \* list built by try_alternative_stitching
    attempts,       \* log of the fallback strategies that were called
    cfg,            \* include_jingle / include_applause / include_bg_music
    audio_file_path,\* audio_file_path argument of create_full_production
    current_audio,  \* create_full_production's local current_audio
    stage_log,      \* log of the pipeline stages that were called
    prod_result,    \* value returned by create_full_production
    no_sfx,         \* --no-sfx command line option
    final_audio_path, \* main's final_audio_path
    exit_code,      \* exit status of the command-line run
    request,        \* arguments of a direct call of an effect builder
    built,          \* what the builder assembled before exporting it
    manager,        \* a CustomVoiceManager: its cache, the clock, its last call
    config,         \* the RadioConfig voice tables and the last update
    generator       \* a call of VoiceGenerator.generate_segment_audio

vars == <<mode, pc, pydub, audio_files, out_name, add_silence, io, fs,
          result, results, attempts, cfg, audio_file_path, current_audio,
          stage_log, prod_result, no_sfx, final_audio_path, exit_code,
          request, built, manager, config, generator>>

\* ------------------------------------------------------ paths and names
NoName == [stem |-> <<>>, ext |-> ""]
None == [dir |-> "", name |-> NoName]

FileName(stem, ext) == [stem |-> stem, ext |-> ext]
Join(dir, name) == [dir |-> dir, name |-> name]
Basename(path) == path.name
SplitextStem(name) == name.stem
Timestamp == "ts"

AudioDir == "assets/audio"
SfxDir == "assets/sfx"

\* path of a role's generated segment (voice_generator.py names it)
SegmentPath(role) == Join(AudioDir, FileName(<<role, Timestamp>>, "mp3"))

\* ------------------------------------------------------------ the dict
Keys(files) == {files[k][1] : k \in 1..Len(files)}
HasKey(files, role) == role \in Keys(files)
Lookup(files, role) ==
    LET k == CHOOSE j \in 1..Len(files) : files[j][1] = role IN files[k][2]

\* --------------------------------------------------------------- files
\* kind: "mp3" a synthesised segment, "bad" a file the engine cannot decode,
\* "wav" audio exported by the engine, "raw" concatenated bytes,
\* "text" a playlist.
Content(kind, bytes, tl, dur, entries) ==
    [kind |-> kind, bytes |-> bytes, tl |-> tl, dur |-> dur, entries |-> entries]
WriteFile(files, path, content) ==
    [p \in DOMAIN files \cup {path} |-> IF p = path THEN content ELSE files[p]]
Exists(files, path) == path \in DOMAIN files

\* the bytes of a segment file of the given size
BytesOf(role, size) == [k \in 1..size |-> <<role, k>>]
SegmentFile(role, kind, dur, size) ==
    Content(kind, BytesOf(role, size), <<role>>, dur, <<>>)

\* the dict that generate_segment_audio builds for the roles of S
CanonicalOrder == <<"intro", "top_songs", "fan_mail", "outro">>
CanonicalMapping(S) ==
    LET order == SelectSeq(CanonicalOrder, LAMBDA r : r \in S)
    IN [k \in 1..Len(order) |-> <<order[k], SegmentPath(order[k])>>]

\* the disk that holds sel[r] at the path of each role r
DiskOf(sel) ==
    LET there == {r \in DOMAIN sel : sel[r].kind # "missing"}
    IN [p \in {SegmentPath(r) : r \in there} |-> sel[p.name.stem[1]]]

\* ------------------------------------------------- pydub AudioSegment
\* An in-memory AudioSegment: its timeline of parts and its length in ms.
Segment(tl, dur) == [tl |-> tl, dur |-> dur]
AudioEmpty == Segment(<<>>, 0)
AudioSilent(duration) == Segment(<<"silence">>, duration)
\* each operand is a value, taken once
AudioAdd(a, b) ==
    CHOOSE sum \in {Segment(x.tl \o y.tl, x.dur + y.dur) : x \in {a}, y \in {b}} : TRUE
AudioLen(a) == a.dur
\* AudioSegment.from_file: raises unless the file exists and decodes
\* (a raw byte concatenation decodes or not, as the decoder at hand decides)
CanLoad(files, path) ==
    /\ Exists(files, path)
    /\ \/ files[path].kind \in {"mp3", "wav"}
       \/ files[path].kind = "raw" /\ io.decode
FromFile(files, path) == Segment(files[path].tl, files[path].dur)
Exported(a) == Content("wav", <<>>, a.tl, a.dur, <<>>)
Min(a, b) == IF a < b THEN a ELSE b

\* faulty variant: an overlay that runs past the end lengthens the audio
AudioOverlayExtends(a, b, position) ==
    Segment(a.tl, IF position + b.dur > a.dur THEN position + b.dur ELSE a.dur)

\* a.overlay(b, position): b is mixed into a; the result is as long as a
AudioOverlay(a, b, position) == Segment(a.tl, a.dur)
\* a[start:end], 0 <= start <= end: both ends are clamped to len(a)
AudioSlice(a, start, end) ==
    LET lo == IF start < a.dur THEN start ELSE a.dur
        hi == IF end < a.dur THEN end ELSE a.dur
    IN Segment(IF hi > lo THEN a.tl ELSE <<>>, hi - lo)
\* Sine(freq).to_audio_segment(duration), WhiteNoise().to_audio_segment(duration):
\* a generator cannot deliver a negative number of samples
ToneRaises(duration) == duration < 0
Tone(name, duration) == Segment(IF duration > 0 THEN <<name>> ELSE <<>>, duration)
\* a.fade_in(duration), a.fade_out(duration): the length is kept; a negative
\* duration is refused
FadeRaises(duration) == duration < 0

\* ------------------------------------------ AudioStitcher (audio_stitcher.py)
\* faulty variant: the silence does not depend on add_silence
SilenceAfterAlways(i, silence_on) == i < Len(segment_order) - 1

\* line 63: silence follows the segment at 0-based index i of segment_order
SilenceAfter(i, silence_on) == silence_on /\ i < Len(segment_order) - 1

\* faulty variant: the empty check is missing
NothingCombinedNever(combined) == FALSE

\* line 74: the combined audio is empty
NothingCombined(combined) == AudioLen(combined) = 0

\* faulty variant: a loop that gives up at the first role that is not in the dict
RECURSIVE StitchLoopAbort(_, _, _, _, _)
StitchLoopAbort(i, combined, files, disk, silence_on) ==
    IF i >= Len(segment_order) THEN combined
    ELSE LET segment_name == segment_order[i + 1] IN
         IF ~HasKey(files, segment_name) THEN AudioEmpty
         ELSE IF CanLoad(disk, Lookup(files, segment_name))
         THEN LET added == AudioAdd(combined, FromFile(disk, Lookup(files, segment_name)))
                  next == IF silence_on /\ i < Len(segment_order) - 1
                          THEN AudioAdd(added, AudioSilent(silence_duration))
                          ELSE added
              IN StitchLoopAbort(i + 1, next, files, disk, silence_on)
         ELSE StitchLoopAbort(i + 1, combined, files, disk, silence_on)

\* faulty variant: a role that fails to load still gets its silence
RECURSIVE StitchLoopPads(_, _, _, _, _)
StitchLoopPads(i, combined, files, disk, silence_on) ==
    IF i >= Len(segment_order) THEN combined
    ELSE LET segment_name == segment_order[i + 1]
             padded == IF SilenceAfter(i, silence_on)
                       THEN AudioAdd(combined, AudioSilent(silence_duration))
                       ELSE combined
         IN
         IF HasKey(files, segment_name) /\ CanLoad(disk, Lookup(files, segment_name))
         THEN LET segment_audio == FromFile(disk, Lookup(files, segment_name))
                  added == AudioAdd(combined, segment_audio)
                  next == IF SilenceAfter(i, silence_on)
                          THEN AudioAdd(added, AudioSilent(silence_duration))
                          ELSE added
              IN StitchLoopPads(i + 1, next, files, disk, silence_on)
         ELSE IF HasKey(files, segment_name)
         THEN StitchLoopPads(i + 1, padded, files, disk, silence_on)
         ELSE StitchLoopPads(i + 1, combined, files, disk, silence_on)

\* lines 42-72: the loop over segment_order, from 0-based index i on
RECURSIVE StitchLoop(_, _, _, _, _)
StitchLoop(i, combined, files, disk, silence_on) ==
    IF i >= Len(segment_order) THEN combined
    ELSE LET segment_name == segment_order[i + 1] IN
         IF HasKey(files, segment_name) /\ CanLoad(disk, Lookup(files, segment_name))
         THEN LET segment_audio == FromFile(disk, Lookup(files, segment_name))
                  added == AudioAdd(combined, segment_audio)
                  next == IF SilenceAfter(i, silence_on)
                          THEN AudioAdd(added, AudioSilent(silence_duration))
                          ELSE added
              IN StitchLoop(i + 1, next, files, disk, silence_on)
         ELSE StitchLoop(i + 1, combined, files, disk, silence_on)

\* lines 118-122: the playlist lines, one entry per role of segment_order
\* that is a key of the dict
RECURSIVE PlaylistEntries(_, _)
PlaylistEntries(i, files) ==
    IF i >= Len(segment_order) THEN <<>>
    ELSE LET segment_name == segment_order[i + 1] IN
         IF HasKey(files, segment_name)
         THEN <<[number |-> i + 1, role |-> segment_name,
                 file |-> Basename(Lookup(files, segment_name)),
                 full |-> Lookup(files, segment_name)]>>
              \o PlaylistEntries(i + 1, files)
         ELSE PlaylistEntries(i + 1, files)

\* lines 21-23 and 101-103: the default output file names
StitchDefaultName == FileName(<<"idol_radio_show", Timestamp>>, "wav")
PlaylistDefaultName == FileName(<<"idol_radio_show", Timestamp>>, "txt")

\* _simple_concatenate (lines 98-131): <<returned path, disk afterwards>>
SimpleConcatenate(files, output_filename, disk, write_ok) ==
    LET name == IF output_filename = NoName THEN PlaylistDefaultName
                ELSE output_filename
        output_path == Join(AudioDir, name)
    IN IF write_ok
       THEN <<output_path,
              WriteFile(disk, output_path,
                        Content("text", <<>>, <<>>, 0, PlaylistEntries(0, files)))>>
       ELSE <<None, disk>>

\* stitch_segments (lines 15-96): <<returned path, disk afterwards>>
StitchResult(files, output_filename, silence_on, disk, engine, outcome) ==
    IF ~engine THEN SimpleConcatenate(files, output_filename, disk, outcome.playlist)
    ELSE LET name == IF output_filename = NoName THEN StitchDefaultName
                     ELSE output_filename
             output_path == Join(AudioDir, name)
             combined_audio == StitchLoop(0, AudioEmpty, files, disk, silence_on)
         IN IF NothingCombined(combined_audio)
            THEN SimpleConcatenate(files, name, disk, outcome.playlist)
            ELSE IF outcome.export
                 THEN <<output_path, WriteFile(disk, output_path, Exported(combined_audio))>>
                 ELSE SimpleConcatenate(files, name, disk, outcome.playlist)

StitchSegments ==
    /\ mode = "stitch" /\ pc = "stitch"
    /\ LET r == StitchResult(audio_files, out_name, add_silence, fs, pydub, io)
       IN /\ result' = r[1]
          /\ fs' = r[2]
    /\ pc' = "done"
    /\ UNCHANGED <<request, built, manager, config, generator>>
    /\ UNCHANGED <<mode, pydub, audio_files, out_name, add_silence, io, results,
                   attempts, cfg, audio_file_path, current_audio, stage_log,
                   prod_result, no_sfx, final_audio_path, exit_code>>

\* ------------------------------- SimpleAudioStitcher (simple_stitcher.py)
ConcatName == FileName(<<"simple_concat_show">>, "mp3")
M3uName == FileName(<<"radio_show">>, "m3u")

\* faulty variant: the files are appended in the dict's own order
ConcatOrderOfDict(files) == [k \in 1..Len(files) |-> files[k][1]]

\* lines 29, 32-33: the roles whose files are appended, in appending order
ConcatOrder(files) ==
    SelectSeq(segment_order, LAMBDA segment_name : HasKey(files, segment_name))

\* lines 32-39: appends the files of order[k..] to outfile; stops at the
\* first file that cannot be opened.  <<completed, outfile>>
RECURSIVE ConcatLoop(_, _, _, _, _)
ConcatLoop(k, order, files, disk, outfile) ==
    IF k > Len(order) THEN <<TRUE, outfile>>
    ELSE LET audio_path == Lookup(files, order[k]) IN
         IF Exists(disk, audio_path)
         THEN ConcatLoop(k + 1, order, files, disk,
                  Content("raw", outfile.bytes \o disk[audio_path].bytes,
                          outfile.tl \o disk[audio_path].tl,
                          outfile.dur + disk[audio_path].dur, <<>>))
         ELSE <<FALSE, outfile>>

\* simple_mp3_concat (lines 16-56): <<returned path, disk afterwards>>
SimpleMp3ConcatResult(files, output_filename, disk, write_ok) ==
    LET output_path == Join(AudioDir, output_filename)
        r == ConcatLoop(1, ConcatOrder(files), files, disk,
                        Content("raw", <<>>, <<>>, 0, <<>>))
    IN IF ~write_ok THEN <<None, disk>>
       ELSE <<IF r[1] THEN output_path ELSE None, WriteFile(disk, output_path, r[2])>>

\* faulty variant: the playlist lists the dict's items as they come
M3uEntriesOfDict(files) ==
    [k \in 1..Len(files) |->
        [role |-> files[k][1], file |-> Basename(files[k][2])]]

\* lines 76-83: the playlist entries
M3uEntries(files) ==
    LET order == SelectSeq(segment_order, LAMBDA segment_name : HasKey(files, segment_name))
    IN [k \in 1..Len(order) |->
           [role |-> order[k], file |-> Basename(Lookup(files, order[k]))]]

\* create_m3u_playlist (lines 58-92): <<returned path, disk afterwards>>
M3uPlaylistResult(files, output_filename, disk, write_ok) ==
    LET output_path == Join(AudioDir, output_filename)
    IN IF ~write_ok THEN <<None, disk>>
       ELSE <<output_path,
              WriteFile(disk, output_path,
                        Content("text", <<>>, <<>>, 0, M3uEntries(files)))>>

\* where try_alternative_stitching returns to
AfterStitching == IF mode = "main" THEN "select" ELSE "done"

\* faulty variant: a failed method 1 ends the call
AfterConcatGiveUp(result1) == IF result1 = None THEN AfterStitching ELSE "playlist"

\* try_alternative_stitching, line 106: what follows method 1
AfterConcat(result1) == "playlist"

\* try_alternative_stitching, lines 101-104: method 1
SimpleMp3Concat ==
    /\ mode \in {"fallback", "main"} /\ pc = "concat"
    /\ LET r == SimpleMp3ConcatResult(audio_files, ConcatName, fs, io.concat)
       IN /\ fs' = r[2]
          /\ attempts' = Append(attempts, "Simple MP3 Concat")
          /\ results' = IF r[1] # None
                        THEN Append(results, <<"Simple MP3 Concat", r[1]>>)
                        ELSE results
          /\ pc' = AfterConcat(r[1])
    /\ UNCHANGED <<request, built, manager, config, generator>>
    /\ UNCHANGED <<mode, pydub, audio_files, out_name, add_silence, io, result,
                   cfg, audio_file_path, current_audio, stage_log,
                   prod_result, no_sfx, final_audio_path, exit_code>>

\* try_alternative_stitching, lines 106-111: method 2 and the return
CreateM3uPlaylist ==
    /\ mode \in {"fallback", "main"} /\ pc = "playlist"
    /\ LET r == M3uPlaylistResult(audio_files, M3uName, fs, io.m3u)
       IN /\ fs' = r[2]
          /\ attempts' = Append(attempts, "M3U Playlist")
          /\ results' = IF r[1] # None
                        THEN Append(results, <<"M3U Playlist", r[1]>>)
                        ELSE results
    /\ pc' = AfterStitching
    /\ UNCHANGED <<request, built, manager, config, generator>>
    /\ UNCHANGED <<mode, pydub, audio_files, out_name, add_silence, io, result,
                   cfg, audio_file_path, current_audio, stage_log,
                   prod_result, no_sfx, final_audio_path, exit_code>>

\* --------------------------- SoundEffectsManager (sound_effects.py)
JingleDefaultMs == 3000
ApplauseDefaultMs == 5000
BgMusicExtraMs == 2000
ChordCount == 4
ApplauseParts == 10

TonesPerChord == 3
SparkleMs == 200
sparkle_positions == <<500, 1500, 2500>>
loop_duration == 8000
ChordsPerLoop == 4
ApplauseFadeMs == 1000
ApplauseFadeDivisor == 4
BgMusicFadeMs == 2000
BgMusicFadeDivisor == 10

\* what a builder has assembled: the audio, the positions at which a
\* sparkle was overlaid, the lengths of the applause parts
Built(audio, sparkles, parts) == [audio |-> audio, sparkles |-> sparkles, parts |-> parts]
NoBuilt == Built(AudioEmpty, <<>>, <<>>)

\* lines 72-79 and 237-244: the tones of one chord, overlaid on the first
RECURSIVE ChordOf(_, _, _)
ChordOf(k, chord, chord_duration) ==
    IF k > TonesPerChord THEN chord
    ELSE LET tone == Tone("chord", chord_duration)
         IN ChordOf(k + 1,
                    IF AudioLen(chord) = 0 THEN tone ELSE AudioOverlay(chord, tone, 0),
                    chord_duration)

\* lines 68-83 and 235-248: count chords (each faded in and out), appended
RECURSIVE ChordLoop(_, _, _, _)
ChordLoop(k, audio, chord_duration, count) ==
    IF k > count THEN audio
    ELSE ChordLoop(k + 1, AudioAdd(audio, ChordOf(1, AudioEmpty, chord_duration)),
                   chord_duration, count)

\* lines 90-94: a sparkle is overlaid at each position that lies inside
\* the jingle
RECURSIVE SparkleLoop(_, _, _)
SparkleLoop(k, jingle, placed) ==
    IF k > Len(sparkle_positions) THEN Built(jingle, placed, <<>>)
    ELSE LET pos == sparkle_positions[k] IN
         IF pos < AudioLen(jingle)
         THEN SparkleLoop(k + 1, AudioOverlay(jingle, Tone("sparkle", SparkleMs), pos),
                          Append(placed, pos))
         ELSE SparkleLoop(k + 1, jingle, placed)

\* create_radio_jingle, lines 64-94: the jingle before it is exported
JingleAudio(duration_ms) ==
    LET chord_duration == duration_ms \div ChordCount
    IN SparkleLoop(1, ChordLoop(1, AudioEmpty, chord_duration, ChordCount), <<>>)
JingleLength(duration_ms) == AudioLen(JingleAudio(duration_ms).audio)

\* the intensities that create_applause_effect knows (line 142-146), and
\* the default of add_applause_to_show's intensity parameter (line 338)
Intensities == {"light", "medium", "heavy"}
DefaultIntensity == "medium"

\* lines 141-147: the volume offset of an intensity, in dB
VolumeLight == -30
VolumeMedium == -20
VolumeHeavy == -10
VolumeAdjustment(intensity) ==
    CASE intensity = "light" -> VolumeLight
      [] intensity = "medium" -> VolumeMedium
      [] intensity = "heavy" -> VolumeHeavy
      [] OTHER -> VolumeMedium

JitterLo == -8
JitterHi == 3

\* faulty variant: a draw may be one dB louder
VariationsWide == JitterLo..(JitterHi + 1)

\* line 159: the values random.randint(-8, 3) can return
Variations == JitterLo..JitterHi

\* the draws of one call, one per part: the random source is the
\* environment; the odd parts get any value, the even parts an extreme one
Draws ==
    {[i \in 1..ApplauseParts |-> IF i % 2 = 1 THEN v ELSE w] :
        v \in Variations, w \in {JitterLo, JitterHi}}

\* lines 150-161: the ten parts cut from the noise, from 0-based index i
\* on; each keeps where it was cut and the variation added to its volume
RECURSIVE ApplauseSegments(_, _, _, _)
ApplauseSegments(i, applause, segment_length, draws) ==
    IF i >= ApplauseParts THEN <<>>
    ELSE LET start == i * segment_length
             end == start + segment_length
             variation == draws[i + 1]
         IN <<[audio |-> AudioSlice(applause, start, end), start |-> start,
               variation |-> variation]>>
            \o ApplauseSegments(i + 1, applause, segment_length, draws)

\* sum(segments)
RECURSIVE AudioSum(_)
AudioSum(segments) ==
    IF segments = <<>> THEN AudioEmpty
    ELSE AudioAdd(Head(segments), AudioSum(Tail(segments)))

\* create_applause_effect, lines 133-164: the applause before the fades;
\* parts: length, place of cutting and volume offset of each part, in the
\* order of recombination
ApplauseAudio(duration_ms, intensity, draws) ==
    LET applause == Tone("noise", duration_ms)
        segment_length == duration_ms \div ApplauseParts
        segments == ApplauseSegments(0, applause, segment_length, draws)
    IN Built(AudioSum([k \in 1..Len(segments) |-> segments[k].audio]), <<>>,
             [k \in 1..Len(segments) |->
                 [len |-> AudioLen(segments[k].audio), start |-> segments[k].start,
                  base |-> VolumeAdjustment(intensity),
                  variation |-> segments[k].variation]])
\* the length does not depend on the volumes
ApplauseLength(duration_ms) ==
    AudioLen(ApplauseAudio(duration_ms, DefaultIntensity,
                           [i \in 1..ApplauseParts |-> 0]).audio)

\* faulty variant: no extra loop
LoopsNeededShort(duration_ms) == duration_ms \div loop_duration

\* line 252: loops_needed
LoopsNeeded(duration_ms) == (duration_ms \div loop_duration) + 1

\* lines 254-255: the loop, appended loops_needed times
RECURSIVE RepeatLoop(_, _, _)
RepeatLoop(i, background_music, loop) ==
    IF i <= 0 THEN background_music
    ELSE RepeatLoop(i - 1, AudioAdd(background_music, loop), loop)

\* create_background_music, lines 232-260: the music, trimmed to duration_ms
BgMusicAudio(duration_ms) ==
    LET chord_duration == loop_duration \div ChordsPerLoop
        loop == ChordLoop(1, AudioEmpty, chord_duration, ChordsPerLoop)
        background_music == RepeatLoop(LoopsNeeded(duration_ms), AudioEmpty, loop)
    IN Built(AudioSlice(background_music, 0, duration_ms), <<>>, <<>>)
BgMusicLength(duration_ms) == AudioLen(BgMusicAudio(duration_ms).audio)

JinglePath == Join(SfxDir, FileName(<<"kpop_jingle", Timestamp>>, "wav"))
\* f"applause_{intensity}_{timestamp}.wav"
ApplausePath(intensity) ==
    Join(SfxDir, FileName(<<"applause", intensity, Timestamp>>, "wav"))
BgMusicPath == Join(SfxDir, FileName(<<"bg_music", "upbeat", Timestamp>>, "wav"))

\* create_radio_jingle (lines 34-109):
\* <<returned path, disk afterwards, what was assembled>>
CreateRadioJingleResult(duration_ms, disk, export_ok) ==
    IF ToneRaises(duration_ms \div ChordCount) THEN <<None, disk, NoBuilt>>
    ELSE LET jingle == JingleAudio(duration_ms)
         IN IF export_ok
            THEN <<JinglePath,
                   WriteFile(disk, JinglePath,
                             Exported(Segment(<<"jingle">>, AudioLen(jingle.audio)))),
                   jingle>>
            ELSE <<None, disk, jingle>>

\* create_applause_effect (lines 111-182)
CreateApplauseEffectResult(duration_ms, intensity, draws, disk, export_ok) ==
    IF ToneRaises(duration_ms) THEN <<None, disk, NoBuilt>>
    ELSE LET applause == ApplauseAudio(duration_ms, intensity, draws)
             fade_duration == Min(ApplauseFadeMs, duration_ms \div ApplauseFadeDivisor)
         IN IF FadeRaises(fade_duration) THEN <<None, disk, applause>>
            ELSE IF export_ok
            THEN <<ApplausePath(intensity),
                   WriteFile(disk, ApplausePath(intensity),
                             Exported(Segment(<<"applause">>, AudioLen(applause.audio)))),
                   applause>>
            ELSE <<None, disk, applause>>

\* create_background_music (lines 184-276)
CreateBackgroundMusicResult(duration_ms, disk, export_ok) ==
    LET fade_duration == Min(BgMusicFadeMs, duration_ms \div BgMusicFadeDivisor)
    IN IF FadeRaises(fade_duration) THEN <<None, disk, NoBuilt>>
       ELSE LET background_music == BgMusicAudio(duration_ms)
            IN IF export_ok
               THEN <<BgMusicPath,
                      WriteFile(disk, BgMusicPath,
                                Exported(Segment(<<"bg_music">>,
                                                 AudioLen(background_music.audio)))),
                      background_music>>
               ELSE <<None, disk, background_music>>

\* faulty variant: a stage writes its output over the file it read
StageOutputInPlace(audio_path, suffix) == audio_path

\* f"{base_name}_with_....wav" in self.audio_path
StageOutput(audio_path, suffix) ==
    Join(AudioDir, FileName(Append(SplitextStem(Basename(audio_path)), suffix), "wav"))

\* what a stage can meet: its builder returns None ("no_effect"), the
\* export raises ("export_error"), or neither ("ok")
Outcomes == {"ok", "no_effect", "export_error"}

\* faulty variant: the position is taken to be "start"
JinglePlacedAtStart(jingle, main_audio, position) == AudioAdd(jingle, main_audio)

\* add_jingle_to_show, lines 308-314: the jingle put at the position
JinglePlaced(jingle, main_audio, position) ==
    CASE position = "start" -> AudioAdd(jingle, main_audio)
      [] position = "end" -> AudioAdd(main_audio, jingle)
      [] position = "both" -> AudioAdd(AudioAdd(jingle, main_audio), jingle)

\* faulty variant: a failed stage returns None, as the builders do
AddJingleToShowDropsAudio(audio_path, disk, outcome) ==
    IF ~CanLoad(disk, audio_path) \/ outcome # "ok" THEN <<None, disk>>
    ELSE <<StageOutput(audio_path, "with_jingle"),
           WriteFile(disk, StageOutput(audio_path, "with_jingle"),
                     Exported(FromFile(disk, audio_path)))>>

\* add_jingle_to_show(audio_file_path, position="both") (lines 278-336):
\* <<returned path, disk afterwards>>
AddJingleToShow(audio_path, disk, outcome) ==
    IF ~CanLoad(disk, audio_path) THEN <<audio_path, disk>>
    ELSE IF outcome = "no_effect" THEN <<audio_path, disk>>
    ELSE LET main_audio == FromFile(disk, audio_path)
             effect_disk == CreateRadioJingleResult(JingleDefaultMs, disk, TRUE)[2]
             jingle == FromFile(effect_disk, JinglePath)
             enhanced_audio == JinglePlaced(jingle, main_audio, "both")
             output_path == StageOutput(audio_path, "with_jingle")
         IN IF outcome = "export_error" THEN <<audio_path, effect_disk>>
            ELSE <<output_path, WriteFile(effect_disk, output_path, Exported(enhanced_audio))>>

\* faulty variant: the applause is laid over the end of the show
AddApplauseToShowOverlaid(audio_path, disk, intensity, outcome) ==
    IF ~CanLoad(disk, audio_path) \/ outcome # "ok" THEN <<audio_path, disk>>
    ELSE <<StageOutput(audio_path, "with_applause"),
           WriteFile(disk, StageOutput(audio_path, "with_applause"),
                     Exported(AudioOverlay(FromFile(disk, audio_path),
                                           Tone("noise", ApplauseDefaultMs), 0)))>>

\* add_applause_to_show(audio_file_path, position="end", intensity)
\* (lines 338-397)
AddApplauseToShow(audio_path, disk, intensity, outcome) ==
    IF ~CanLoad(disk, audio_path) THEN <<audio_path, disk>>
    ELSE IF outcome = "no_effect" THEN <<audio_path, disk>>
    ELSE LET main_audio == FromFile(disk, audio_path)
             \* the file written does not depend on the volumes drawn
             effect_disk == CreateApplauseEffectResult(ApplauseDefaultMs, intensity,
                                [i \in 1..ApplauseParts |-> 0], disk, TRUE)[2]
             applause == FromFile(effect_disk, ApplausePath(intensity))
             enhanced_audio == AudioAdd(main_audio, applause)
             output_path == StageOutput(audio_path, "with_applause")
         IN IF outcome = "export_error" THEN <<audio_path, effect_disk>>
            ELSE <<output_path, WriteFile(effect_disk, output_path, Exported(enhanced_audio))>>

\* add_background_music(audio_file_path, bg_music_path, style) (lines
\* 399-457); bg_music_path = None: the music is generated
AddBackgroundMusic(audio_path, bg_music_path, disk, outcome) ==
    IF ~CanLoad(disk, audio_path) THEN <<audio_path, disk>>
    ELSE LET main_audio == FromFile(disk, audio_path)
             main_duration == AudioLen(main_audio)
             created == IF bg_music_path # None THEN <<bg_music_path, disk>>
                        ELSE IF outcome = "no_effect" THEN <<None, disk>>
                        ELSE CreateBackgroundMusicResult(main_duration + BgMusicExtraMs,
                                                         disk, TRUE)
             music_path == created[1]
             effect_disk == created[2]
         IN IF music_path = None \/ ~CanLoad(effect_disk, music_path)
            THEN <<audio_path, effect_disk>>
            ELSE LET bg_music == AudioSlice(FromFile(effect_disk, music_path),
                                            0, main_duration)
                     \* bg_music.overlay(main_audio): as long as bg_music
                     enhanced_audio ==
                         Segment(<<"bg_music_under">> \o main_audio.tl,
                                 AudioLen(AudioOverlay(bg_music, main_audio, 0)))
                     output_path == StageOutput(audio_path, "with_bg_music")
                 IN IF outcome = "export_error" THEN <<audio_path, effect_disk>>
                    ELSE <<output_path,
                           WriteFile(effect_disk, output_path, Exported(enhanced_audio))>>

\* faulty variant: the call does not get past the applause step
NextStepHangs(step) ==
    CASE step = "bg" -> "jingle"
      [] step = "jingle" -> "applause"
      [] step = "applause" -> "hung"
      [] OTHER -> IF mode = "main" THEN "summary" ELSE "done"

\* faulty variant: applause before jingle
NextStepSwapped(step) ==
    CASE step = "bg" -> "applause"
      [] step = "applause" -> "jingle"
      [] step = "jingle" -> "final"
      [] OTHER -> IF mode = "main" THEN "summary" ELSE "done"

\* create_full_production (lines 486-526): the step that follows a step
NextStep(step) ==
    CASE step = "bg" -> "jingle"
      [] step = "jingle" -> "applause"
      [] step = "applause" -> "final"
      [] OTHER -> IF mode = "main" THEN "summary" ELSE "done"

\* what a stage leaves in the log: its name, the path it was given, the path
\* it returned and whether it failed
Logged(stage, input, output, failed) ==
    [stage |-> stage, input |-> input, output |-> output, failed |-> failed]
StageFails(audio_path, outcome) == ~CanLoad(fs, audio_path) \/ outcome # "ok"

\* create_full_production, step 1 (lines 488-491)
StepBgMusic ==
    /\ mode \in {"prod", "main"} /\ pc = "bg"
    /\ IF cfg.include_bg_music
       THEN \E outcome \in Outcomes :
               LET r == AddBackgroundMusic(current_audio, None, fs, outcome)
               IN /\ current_audio' = r[1]
                  /\ fs' = r[2]
                  /\ stage_log' = Append(stage_log,
                        Logged("bg_music", current_audio, r[1],
                               StageFails(current_audio, outcome)))
       ELSE UNCHANGED <<current_audio, fs, stage_log>>
    /\ pc' = NextStep("bg")
    /\ UNCHANGED <<request, built, manager, config, generator>>
    /\ UNCHANGED <<mode, pydub, audio_files, out_name, add_silence, io, result,
                   results, attempts, cfg, audio_file_path, prod_result,
                   no_sfx, final_audio_path, exit_code>>

\* faulty variant: the jingle step runs whatever include_jingle says
StepJingleAlways ==
    /\ mode \in {"prod", "main"} /\ pc = "jingle"
    /\ \E outcome \in Outcomes :
          LET r == AddJingleToShow(current_audio, fs, outcome)
          IN /\ current_audio' = r[1]
             /\ fs' = r[2]
             /\ stage_log' = Append(stage_log,
                   Logged("jingle", current_audio, r[1],
                          StageFails(current_audio, outcome)))
    /\ pc' = NextStep("jingle")
    /\ UNCHANGED <<request, built, manager, config, generator>>
    /\ UNCHANGED <<mode, pydub, audio_files, out_name, add_silence, io, result,
                   results, attempts, cfg, audio_file_path, prod_result,
                   no_sfx, final_audio_path, exit_code>>

\* create_full_production, step 2 (lines 493-496)
StepJingle ==
    /\ mode \in {"prod", "main"} /\ pc = "jingle"
    /\ IF cfg.include_jingle
       THEN \E outcome \in Outcomes :
               LET r == AddJingleToShow(current_audio, fs, outcome)
               IN /\ current_audio' = r[1]
                  /\ fs' = r[2]
                  /\ stage_log' = Append(stage_log,
                        Logged("jingle", current_audio, r[1],
                               StageFails(current_audio, outcome)))
       ELSE UNCHANGED <<current_audio, fs, stage_log>>
    /\ pc' = NextStep("jingle")
    /\ UNCHANGED <<request, built, manager, config, generator>>
    /\ UNCHANGED <<mode, pydub, audio_files, out_name, add_silence, io, result,
                   results, attempts, cfg, audio_file_path, prod_result,
                   no_sfx, final_audio_path, exit_code>>

\* create_full_production, step 3 (lines 498-501): the call names the
\* position only, so the intensity is the parameter's default
StepApplause ==
    /\ mode \in {"prod", "main"} /\ pc = "applause"
    /\ IF cfg.include_applause
       THEN \E outcome \in Outcomes :
               LET r == AddApplauseToShow(current_audio, fs, DefaultIntensity, outcome)
               IN /\ current_audio' = r[1]
                  /\ fs' = r[2]
                  /\ stage_log' = Append(stage_log,
                        Logged("applause", current_audio, r[1],
                               StageFails(current_audio, outcome)))
       ELSE UNCHANGED <<current_audio, fs, stage_log>>
    /\ pc' = NextStep("applause")
    /\ UNCHANGED <<request, built, manager, config, generator>>
    /\ UNCHANGED <<mode, pydub, audio_files, out_name, add_silence, io, result,
                   results, attempts, cfg, audio_file_path, prod_result,
                   no_sfx, final_audio_path, exit_code>>

FinalName == FileName(<<"idol_radio_show_with_sfx", Timestamp>>, "wav")

\* create_full_production, lines 503-530: <<returned path, disk afterwards>>
FinalWriteResult(input_path, current, disk, write_ok) ==
    LET final_output_path == Join(AudioDir, FinalName)
    IN IF CanLoad(disk, current) /\ write_ok
       THEN <<final_output_path,
              WriteFile(disk, final_output_path, Exported(FromFile(disk, current)))>>
       ELSE <<input_path, disk>>

\* create_full_production, the final step and the return (and, in a
\* command-line run, apply_sound_effects handing the path back)
FinalWrite ==
    /\ mode \in {"prod", "main"} /\ pc = "final"
    /\ \E write_ok \in BOOLEAN :
          LET r == FinalWriteResult(audio_file_path, current_audio, fs, write_ok)
          IN /\ prod_result' = r[1]
             /\ fs' = r[2]
             /\ final_audio_path' = IF mode = "main" THEN r[1] ELSE final_audio_path
             /\ stage_log' = Append(stage_log,
                   Logged("final", current_audio, r[1],
                          ~(CanLoad(fs, current_audio) /\ write_ok)))
    /\ pc' = NextStep("final")
    /\ UNCHANGED <<request, built, manager, config, generator>>
    /\ UNCHANGED <<mode, pydub, audio_files, out_name, add_silence, io, result,
                   results, attempts, cfg, audio_file_path, current_audio,
                   no_sfx, exit_code>>

\* -------------------------------------- direct calls of the builders
Request(builder, duration_ms, intensity) ==
    [builder |-> builder, duration_ms |-> duration_ms, intensity |-> intensity]
NoRequest == Request("", 0, "")

CreateRadioJingle ==
    /\ mode = "builder" /\ pc = "create_radio_jingle"
    /\ \E export_ok \in BOOLEAN :
          LET r == CreateRadioJingleResult(request.duration_ms, fs, export_ok)
          IN result' = r[1] /\ fs' = r[2] /\ built' = r[3]
    /\ pc' = "done"
    /\ UNCHANGED <<mode, pydub, audio_files, out_name, add_silence, io, results,
                   attempts, cfg, audio_file_path, current_audio, stage_log,
                   prod_result, no_sfx, final_audio_path, exit_code, request,
                   manager, config, generator>>

CreateApplauseEffect ==
    /\ mode = "builder" /\ pc = "create_applause_effect"
    /\ \E export_ok \in BOOLEAN, draws \in Draws :
          LET r == CreateApplauseEffectResult(request.duration_ms, request.intensity,
                                              draws, fs, export_ok)
          IN result' = r[1] /\ fs' = r[2] /\ built' = r[3]
    /\ pc' = "done"
    /\ UNCHANGED <<mode, pydub, audio_files, out_name, add_silence, io, results,
                   attempts, cfg, audio_file_path, current_audio, stage_log,
                   prod_result, no_sfx, final_audio_path, exit_code, request,
                   manager, config, generator>>

CreateBackgroundMusic ==
    /\ mode = "builder" /\ pc = "create_background_music"
    /\ \E export_ok \in BOOLEAN :
          LET r == CreateBackgroundMusicResult(request.duration_ms, fs, export_ok)
          IN result' = r[1] /\ fs' = r[2] /\ built' = r[3]
    /\ pc' = "done"
    /\ UNCHANGED <<mode, pydub, audio_files, out_name, add_silence, io, results,
                   attempts, cfg, audio_file_path, current_audio, stage_log,
                   prod_result, no_sfx, final_audio_path, exit_code, request,
                   manager, config, generator>>

\* a direct call of add_background_music, with or without music of the
\* caller's own
MixRequest(bg_music_path) ==
    [builder |-> "add_background_music", bg_music_path |-> bg_music_path]
AddBackgroundMusicCall ==
    /\ mode = "mix" /\ pc = "add_background_music"
    /\ \E outcome \in Outcomes :
          LET r == AddBackgroundMusic(audio_file_path, request.bg_music_path, fs, outcome)
          IN result' = r[1] /\ fs' = r[2]
    /\ pc' = "done"
    /\ UNCHANGED <<mode, pydub, audio_files, out_name, add_silence, io, results,
                   attempts, cfg, audio_file_path, current_audio, stage_log,
                   prod_result, no_sfx, final_audio_path, exit_code, request, built,
                   manager, config, generator>>

\* ----------------------------------- CustomVoiceManager (custom_voice.py)
\* timedelta keeps whole days apart from the seconds within the day
DaySeconds == 86400
\* line 44: the age, in seconds, below which the cache is served
CacheSeconds == 300
\* the calls of one manager that are followed
MaxCalls == 2
\* the largest voice list the account returns
MaxVoices == 1

\* the dict stored in _voice_cache and returned (lines 95-100); kind
\* "data"; "empty" is the {} of lines 56 and 113, "none" is None
VoiceData(kind, total_count, last_updated) ==
    [kind |-> kind, total_count |-> total_count, last_updated |-> last_updated]
NoData == VoiceData("none", 0, 0)
EmptyDict == VoiceData("empty", 0, 0)
NoTime == -1

\* answers of client.voices.get_all(): it raises, it returns nothing usable
\* (line 54), or it returns a list of voices
Response(kind, count) == [kind |-> kind, count |-> count]
Responses ==
    {Response("raises", 0), Response("falsy", 0)}
        \cup {Response("voices", n) : n \in 0..MaxVoices}

\* time that passes before a call; the clock is in whole seconds
Gaps == {0, 1, CacheSeconds - 1, CacheSeconds, CacheSeconds + 1,
         DaySeconds - 1, DaySeconds, DaySeconds + 1}

\* timedelta.seconds of a non-negative difference: the seconds within the
\* last day, days not counted
TimedeltaSeconds(difference) == difference % DaySeconds

\* lines 43-44: the test that serves the cache
CacheHit(m, refresh_cache, current_time) ==
    /\ ~refresh_cache
    /\ m.voice_cache # NoData
    /\ m.cache_timestamp # NoTime
    /\ TimedeltaSeconds(current_time - m.cache_timestamp) < CacheSeconds

\* the manager's fields and, of its last call, the arguments and the outcome
Manager(voice_cache, cache_timestamp, current_time, refresh_cache, calls, fetched, returned) ==
    [voice_cache |-> voice_cache, cache_timestamp |-> cache_timestamp,
     current_time |-> current_time, refresh_cache |-> refresh_cache,
     calls |-> calls, fetched |-> fetched, returned |-> returned]
\* __init__, lines 26-27
NewManager == Manager(NoData, NoTime, 0, FALSE, 0, FALSE, NoData)
NoManager == NewManager

\* list_all_voices (lines 29-113) called at current_time; fetched: the
\* call reached client.voices.get_all()
ListAllVoicesResult(m, refresh_cache, current_time, response) ==
    IF CacheHit(m, refresh_cache, current_time)
    THEN Manager(m.voice_cache, m.cache_timestamp, current_time, refresh_cache,
                 m.calls + 1, FALSE, m.voice_cache)
    ELSE IF response.kind \in {"raises", "falsy"}
    THEN Manager(m.voice_cache, m.cache_timestamp, current_time, refresh_cache,
                 m.calls + 1, TRUE, EmptyDict)
    ELSE LET fresh == VoiceData("data", response.count, current_time)
         IN Manager(fresh, current_time, current_time, refresh_cache,
                 m.calls + 1, TRUE, fresh)

ListAllVoices ==
    /\ mode = "voices" /\ pc = "list_all_voices"
    /\ manager.calls < MaxCalls
    /\ \E refresh_cache \in BOOLEAN, gap \in Gaps, response \in Responses :
          manager' = ListAllVoicesResult(manager, refresh_cache,
                                         manager.current_time + gap, response)
    /\ UNCHANGED <<mode, pc, pydub, audio_files, out_name, add_silence, io, fs,
                   result, results, attempts, cfg, audio_file_path, current_audio,
                   stage_log, prod_result, no_sfx, final_audio_path, exit_code,
                   request, built, config, generator>>

\* ------------------------------------------------ RadioConfig (config.py)
VoiceRoleNames == {"dj", "fan", "guest", "announcer"}
SegmentNames == {"intro", "top_songs", "fan_mail", "outro", "news"}

\* lines 16-21: the default voice id of each role
DefaultVoice(role) ==
    CASE role = "dj" -> "XB0fDUnXU5powFXDhCwa"
      [] role = "fan" -> "cgSgspJ2msm6clMCkdW9"
      [] role = "guest" -> "EXAVITQu4vr4xnSDxMaL"
      [] role = "announcer" -> "FGY2WhTYpPnrIDTdsKH5"

\* lines 24-30: the role whose voice a segment is given at construction
RoleOfSegment(segment_name) ==
    CASE segment_name \in {"intro", "outro"} -> "dj"
      [] segment_name = "top_songs" -> "guest"
      [] segment_name = "fan_mail" -> "fan"
      [] segment_name = "news" -> "announcer"

\* voice ids a caller may give, and names that are neither segment nor role
CustomVoices == {"voice_a", "voice_b"}
MappingKeys == SegmentNames \cup VoiceRoleNames \cup {"jingle"}
\* the calls of update_voice_mapping that are followed
MaxUpdates == 2

\* the last call of update_voice_mapping
Update(key, voice_id) == [key |-> key, voice_id |-> voice_id]
NoUpdate == Update("", "")

\* RadioConfig.__init__, lines 13-30: segment_voices copies the ids of
\* voice_roles
RadioConfig ==
    LET roles == [r \in VoiceRoleNames |-> DefaultVoice(r)]
    IN [voice_roles |-> roles,
        segment_voices |-> [n \in SegmentNames |-> roles[RoleOfSegment(n)]],
        updated |-> NoUpdate, updates |-> 0]

\* get_voice_for_segment, lines 134-136
GetVoiceForSegment(c, segment_name) ==
    IF segment_name \in DOMAIN c.segment_voices THEN c.segment_voices[segment_name]
    ELSE c.voice_roles["dj"]

\* update_voice_mapping, lines 169-178
UpdateVoiceMappingResult(c, segment_or_role, voice_id) ==
    LET noted == [c EXCEPT !.updated = Update(segment_or_role, voice_id),
                           !.updates = c.updates + 1]
    IN IF segment_or_role \in DOMAIN c.segment_voices
       THEN [noted EXCEPT !.segment_voices[segment_or_role] = voice_id]
       ELSE IF segment_or_role \in DOMAIN c.voice_roles
       THEN [noted EXCEPT !.voice_roles[segment_or_role] = voice_id]
       ELSE noted

UpdateVoiceMapping ==
    /\ mode = "config" /\ pc = "update_voice_mapping"
    /\ config.updates < MaxUpdates
    /\ \E segment_or_role \in MappingKeys, voice_id \in CustomVoices :
          config' = UpdateVoiceMappingResult(config, segment_or_role, voice_id)
    /\ UNCHANGED <<mode, pc, pydub, audio_files, out_name, add_silence, io, fs,
                   result, results, attempts, cfg, audio_file_path, current_audio,
                   stage_log, prod_result, no_sfx, final_audio_path, exit_code,
                   request, built, manager, generator>>

\* --------------------------------------- VoiceGenerator (voice_generator.py)
\* line 19: the generator's own voice
GeneratorVoice == "21m00Tcm4TlvDq8ikWAM"

\* one call of text_to_speech
Synthesis(segment_name, voice_id, ok) ==
    [segment_name |-> segment_name, voice_id |-> voice_id, ok |-> ok]
\* the value generate_segment_audio returns: None, or the dict as the
\* sequence of its items
Returned(kind, items) == [kind |-> kind, items |-> items]
NotReturned == Returned("running", <<>>)
Generator(segments, voice_mapping, calls, returned) ==
    [segments |-> segments, voice_mapping |-> voice_mapping, calls |-> calls,
     returned |-> returned]
NoGenerator == Generator(<<>>, <<>>, <<>>, NotReturned)

\* lines 68-73: the mapping used when the caller gives none
DefaultVoiceMapping ==
    <<<<"intro", GeneratorVoice>>, <<"top_songs", "EXAVITQu4vr4xnSDxMaL">>,
      <<"fan_mail", GeneratorVoice>>>>

\* main.py lines 192-195: the mapping built from the configuration
VoiceMapping(c, segments) ==
    [k \in 1..Len(segments) |-> <<segments[k], GetVoiceForSegment(c, segments[k])>>]

\* text_to_speech, lines 21-62: the path and the disk after the call; ok:
\* the API answered and the file was saved
TextToSpeech(segment_name, disk, ok) ==
    IF ok THEN <<SegmentPath(segment_name),
                 WriteFile(disk, SegmentPath(segment_name),
                           SegmentFile(segment_name, "mp3", 1, 1))>>
    ELSE <<None, disk>>

\* faulty variant: a failed segment is left out and the loop goes on
RECURSIVE SegmentLoopSkips(_, _, _, _, _, _)
SegmentLoopSkips(i, g, audio_files_so_far, calls, disk, ok) ==
    IF i > Len(g.segments) THEN <<Returned("dict", audio_files_so_far), calls, disk>>
    ELSE LET segment_name == g.segments[i]
             voice_id == IF HasKey(g.voice_mapping, segment_name)
                         THEN Lookup(g.voice_mapping, segment_name)
                         ELSE GeneratorVoice
             spoken == TextToSpeech(segment_name, disk, ok[segment_name])
             logged == Append(calls, Synthesis(segment_name, voice_id, ok[segment_name]))
         IN SegmentLoopSkips(i + 1, g,
                             IF spoken[1] # None
                             THEN Append(audio_files_so_far, <<segment_name, spoken[1]>>)
                             ELSE audio_files_so_far,
                             logged, spoken[2], ok)

\* generate_segment_audio, lines 75-95: the loop from the i-th segment on
RECURSIVE SegmentLoop(_, _, _, _, _, _)
SegmentLoop(i, g, audio_files_so_far, calls, disk, ok) ==
    IF i > Len(g.segments) THEN <<Returned("dict", audio_files_so_far), calls, disk>>
    ELSE LET segment_name == g.segments[i]
             voice_id == IF HasKey(g.voice_mapping, segment_name)
                         THEN Lookup(g.voice_mapping, segment_name)
                         ELSE GeneratorVoice
             spoken == TextToSpeech(segment_name, disk, ok[segment_name])
             logged == Append(calls, Synthesis(segment_name, voice_id, ok[segment_name]))
         IN IF spoken[1] # None
            THEN SegmentLoop(i + 1, g,
                             Append(audio_files_so_far, <<segment_name, spoken[1]>>),
                             logged, spoken[2], ok)
            ELSE <<Returned("none", <<>>), logged, spoken[2]>>

GenerateSegmentAudio ==
    /\ mode = "generate" /\ pc = "generate_segment_audio"
    /\ \E ok \in [{generator.segments[k] : k \in 1..Len(generator.segments)} -> BOOLEAN] :
          LET r == SegmentLoop(1, generator, <<>>, <<>>, fs, ok)
          IN /\ generator' = [generator EXCEPT !.returned = r[1], !.calls = r[2]]
             /\ fs' = r[3]
    /\ pc' = "done"
    /\ UNCHANGED <<mode, pydub, audio_files, out_name, add_silence, io,
                   result, results, attempts, cfg, audio_file_path, current_audio,
                   stage_log, prod_result, no_sfx, final_audio_path, exit_code,
                   request, built, manager, config>>

\* ------------------------------------------ command-line run (main.py)
\* the exit status: sys.exit(1) and uncaught errors fail, a return succeeds
ExitSuccess == "success"
ExitFailure == "failure"
Running == "running"

\* 'concat' in method.lower()
IsConcatMethod(method) == method \in {"Simple MP3 Concat"}
HasConcat(list) == \E k \in 1..Len(list) : IsConcatMethod(list[k][1])
FirstConcat(list) ==
    list[CHOOSE k \in 1..Len(list) :
            /\ IsConcatMethod(list[k][1])
            /\ \A j \in 1..(k - 1) : ~IsConcatMethod(list[j][1])][2]

\* config.get_output_path(config.get_final_output_filename()): both add
\* the timestamp
NoSfxFinalPath ==
    Join(AudioDir, FileName(<<"idol_radio_show_with_sfx", Timestamp, Timestamp>>, "wav"))

\* the imports of main.py (line 30) run sound_effects.py, whose line 10
\* imports pydub unguarded
MainImport ==
    /\ mode = "main" /\ pc = "import"
    /\ IF pydub
       THEN pc' = "generate" /\ UNCHANGED exit_code
       ELSE pc' = "exit" /\ exit_code' = ExitFailure
    /\ UNCHANGED <<request, built, manager, config, generator>>
    /\ UNCHANGED <<mode, pydub, audio_files, out_name, add_silence, io, fs,
                   result, results, attempts, cfg, audio_file_path,
                   current_audio, stage_log, prod_result, no_sfx,
                   final_audio_path>>

\* main, lines 316-351: keys, configuration, script and audio generation
\* (the generators and the speech service are outside the model: they
\* deliver the three segments, or the run exits)
MainGenerate ==
    /\ mode = "main" /\ pc = "generate"
    /\ \/ /\ pc' = "exit" /\ exit_code' = ExitFailure
          /\ UNCHANGED <<audio_files, fs>>
       \/ /\ \E d \in 1..MaxDur :
                fs' = DiskOf([r \in OrderRoles |-> SegmentFile(r, "mp3", d, 1)])
          /\ audio_files' = CanonicalMapping(OrderRoles)
          /\ pc' = "concat"
          /\ UNCHANGED exit_code
    /\ UNCHANGED <<request, built, manager, config, generator>>
    /\ UNCHANGED <<mode, pydub, out_name, add_silence, io, result, results,
                   attempts, cfg, audio_file_path, current_audio, stage_log,
                   prod_result, no_sfx, final_audio_path>>

\* after try_alternative_stitching: apply_sound_effects, lines 226-251
\* (up to the call of create_full_production), or main, lines 364-382
MainSelect ==
    /\ mode = "main" /\ pc = "select"
    /\ IF ~no_sfx
       THEN IF results = <<>>
            THEN /\ final_audio_path' = None
                 /\ pc' = "summary"
                 /\ UNCHANGED <<audio_file_path, current_audio, fs, exit_code>>
            ELSE LET base_show_path == IF HasConcat(results) THEN FirstConcat(results)
                                       ELSE results[1][2]
                 IN /\ audio_file_path' = base_show_path
                    /\ current_audio' = base_show_path
                    /\ pc' = "bg"
                    /\ UNCHANGED <<final_audio_path, fs, exit_code>>
       ELSE IF results = <<>>
            THEN /\ final_audio_path' = None
                 /\ pc' = "summary"
                 /\ UNCHANGED <<audio_file_path, current_audio, fs, exit_code>>
            ELSE IF HasConcat(results)
                 THEN IF CanLoad(fs, FirstConcat(results)) /\ io.export
                      THEN /\ fs' = WriteFile(fs, NoSfxFinalPath,
                                        Exported(FromFile(fs, FirstConcat(results))))
                           /\ final_audio_path' = NoSfxFinalPath
                           /\ pc' = "summary"
                           /\ UNCHANGED <<audio_file_path, current_audio, exit_code>>
                      ELSE /\ pc' = "exit" /\ exit_code' = ExitFailure
                           /\ UNCHANGED <<audio_file_path, current_audio, fs,
                                          final_audio_path>>
                 ELSE /\ final_audio_path' = results[1][2]
                      /\ pc' = "summary"
                      /\ UNCHANGED <<audio_file_path, current_audio, fs, exit_code>>
    /\ UNCHANGED <<request, built, manager, config, generator>>
    /\ UNCHANGED <<mode, pydub, audio_files, out_name, add_silence, io, result,
                   results, attempts, cfg, stage_log, prod_result, no_sfx>>

\* main, lines 384-441: the check of the final path, the summary, the exit
MainSummary ==
    /\ mode = "main" /\ pc = "summary"
    /\ exit_code' = IF final_audio_path = None THEN ExitFailure
                    ELSE IF Exists(fs, final_audio_path) /\ ~CanLoad(fs, final_audio_path)
                         THEN ExitFailure
                         ELSE ExitSuccess
    /\ pc' = "exit"
    /\ UNCHANGED <<request, built, manager, config, generator>>
    /\ UNCHANGED <<mode, pydub, audio_files, out_name, add_silence, io, fs,
                   result, results, attempts, cfg, audio_file_path,
                   current_audio, stage_log, prod_result, no_sfx,
                   final_audio_path>>

\* ------------------------------------------------------- initial states
Io(export, playlist, concat, m3u, decode) ==
    [export |-> export, playlist |-> playlist, concat |-> concat, m3u |-> m3u,
     decode |-> decode]

\* a dict over the roles of S, its items in insertion order
Mappings(S) ==
    {[k \in 1..Cardinality(S) |-> <<f[k], SegmentPath(f[k])>>] :
        f \in {g \in [1..Cardinality(S) -> S] :
                  \A a, b \in 1..Cardinality(S) : a # b => g[a] # g[b]}}
\* what may lie on disk at a role's path: nothing, an undecodable file, or
\* a segment of some duration and size
SourceChoices(role, kinds, durs, sizes) ==
    IF role \in ExtraRoles THEN {SegmentFile(role, "mp3", 1, 1)}
    ELSE {SegmentFile(role, k, 0, 1) : k \in kinds}
         \cup {SegmentFile(role, "mp3", d, z) : d \in durs, z \in sizes}
\* config.sound_effects (config.py, lines 76-91): the three switches and
\* the applause intensity, 'medium' unless the configuration is edited
Cfg(jingle, applause, bg_music) ==
    [include_jingle |-> jingle, include_applause |-> applause,
     include_bg_music |-> bg_music, applause_intensity |-> "medium"]
WithIntensity(c, intensity) == [c EXCEPT !.applause_intensity = intensity]

InitStitch ==
    /\ mode = "stitch" /\ pc = "stitch"
    /\ pydub \in BOOLEAN
    /\ \E S \in SUBSET AllRoles :
          /\ audio_files = CanonicalMapping(S)
          /\ \E sel \in [S -> UNION {SourceChoices(r, {"missing", "bad"}, 1..MaxDur, {1}) : r \in S}] :
                /\ \A r \in S : sel[r] \in SourceChoices(r, {"missing", "bad"}, 1..MaxDur, {1})
                /\ fs = DiskOf(sel)
    /\ out_name \in {NoName, FileName(<<"my_show">>, "wav")}
    /\ add_silence \in BOOLEAN
    /\ \E e, p \in BOOLEAN : io = Io(e, p, TRUE, TRUE, TRUE)
    /\ result = None /\ results = <<>> /\ attempts = <<>>
    /\ cfg = Cfg(FALSE, FALSE, FALSE) /\ audio_file_path = None /\ current_audio = None
    /\ stage_log = <<>> /\ prod_result = None
    /\ no_sfx = FALSE /\ final_audio_path = None /\ exit_code = Running
    /\ request = NoRequest /\ built = NoBuilt
    /\ manager = NoManager /\ config = RadioConfig /\ generator = NoGenerator

InitFallback ==
    /\ mode = "fallback" /\ pc = "concat"
    /\ pydub = FALSE
    /\ \E S \in SUBSET AllRoles :
          /\ audio_files \in Mappings(S)
          /\ \E sel \in [S -> UNION {SourceChoices(r, {"missing"}, {1}, 1..MaxBytes) : r \in S}] :
                /\ \A r \in S : sel[r] \in SourceChoices(r, {"missing"}, {1}, 1..MaxBytes)
                /\ fs = DiskOf(sel)
    /\ out_name = NoName /\ add_silence = FALSE
    /\ \E c, m \in BOOLEAN : io = Io(TRUE, TRUE, c, m, TRUE)
    /\ result = None /\ results = <<>> /\ attempts = <<>>
    /\ cfg = Cfg(FALSE, FALSE, FALSE) /\ audio_file_path = None /\ current_audio = None
    /\ stage_log = <<>> /\ prod_result = None
    /\ no_sfx = FALSE /\ final_audio_path = None /\ exit_code = Running
    /\ request = NoRequest /\ built = NoBuilt
    /\ manager = NoManager /\ config = RadioConfig /\ generator = NoGenerator

\* create_full_production called on a show file: engine audio of some
\* duration, or a raw concatenation that the decoder accepts or not
ShowPath == Join(AudioDir, FileName(<<"show">>, "mp3"))
InitProd ==
    /\ mode = "prod" /\ pc = "bg"
    /\ pydub = TRUE
    /\ audio_files = <<>> /\ out_name = NoName /\ add_silence = FALSE
    /\ \E j, a, b \in BOOLEAN : \E intensity \in Intensities :
          cfg = WithIntensity(Cfg(j, a, b), intensity)
    /\ \/ /\ \E d \in 1..MaxDur :
                fs = [p \in {ShowPath} |-> Content("wav", <<>>, <<"show">>, d, <<>>)]
          /\ io = Io(TRUE, TRUE, TRUE, TRUE, TRUE)
       \/ /\ fs = [p \in {ShowPath} |-> Content("raw", <<>>, <<"show">>, 1, <<>>)]
          /\ io = Io(TRUE, TRUE, TRUE, TRUE, FALSE)
    /\ audio_file_path = ShowPath /\ current_audio = ShowPath
    /\ result = None /\ results = <<>> /\ attempts = <<>>
    /\ stage_log = <<>> /\ prod_result = None
    /\ no_sfx = FALSE /\ final_audio_path = None /\ exit_code = Running
    /\ request = NoRequest /\ built = NoBuilt
    /\ manager = NoManager /\ config = RadioConfig /\ generator = NoGenerator

\* a command-line run: the presets of config.py (default, full_production,
\* minimal_production) or --no-sfx
InitMain ==
    /\ mode = "main" /\ pc = "import"
    /\ pydub \in BOOLEAN
    /\ audio_files = <<>> /\ out_name = NoName /\ add_silence = FALSE
    /\ \/ no_sfx = FALSE /\ cfg \in {Cfg(TRUE, TRUE, FALSE), Cfg(TRUE, TRUE, TRUE),
                                     Cfg(FALSE, FALSE, FALSE)}
       \/ no_sfx = TRUE /\ cfg = Cfg(FALSE, FALSE, FALSE)
    /\ \E e, c, m, d \in BOOLEAN : io = Io(e, TRUE, c, m, d)
    /\ fs = <<>>
    /\ audio_file_path = None /\ current_audio = None
    /\ result = None /\ results = <<>> /\ attempts = <<>>
    /\ stage_log = <<>> /\ prod_result = None
    /\ final_audio_path = None /\ exit_code = Running
    /\ request = NoRequest /\ built = NoBuilt
    /\ manager = NoManager /\ config = RadioConfig /\ generator = NoGenerator

\* the durations a builder is asked for: within MaxOff of 0, of the
\* sparkle positions, of the default durations, and of one and two loops
Anchors == {0, 500, 1500, 2500, 3000, 5000, 8000, 16000}
Durations == {a + k : a \in Anchors, k \in (0 - MaxOff)..MaxOff}

\* a direct call of create_radio_jingle, create_applause_effect or
\* create_background_music
InitBuilder ==
    /\ mode = "builder"
    /\ \E duration_ms \in Durations :
          \/ request = Request("create_radio_jingle", duration_ms, "")
          \/ \E intensity \in Intensities :
                request = Request("create_applause_effect", duration_ms, intensity)
          \/ request = Request("create_background_music", duration_ms, "")
    /\ pc = request.builder
    /\ pydub = TRUE
    /\ audio_files = <<>> /\ out_name = NoName /\ add_silence = FALSE
    /\ io = Io(TRUE, TRUE, TRUE, TRUE, TRUE)
    /\ fs = <<>>
    /\ cfg = Cfg(FALSE, FALSE, FALSE) /\ audio_file_path = None /\ current_audio = None
    /\ result = None /\ results = <<>> /\ attempts = <<>>
    /\ stage_log = <<>> /\ prod_result = None
    /\ no_sfx = FALSE /\ final_audio_path = None /\ exit_code = Running
    /\ built = NoBuilt
    /\ manager = NoManager /\ config = RadioConfig /\ generator = NoGenerator

\* add_background_music called on a show file, the music generated or
\* supplied by the caller (shorter than the show, as long, or longer)
MusicPath == Join(SfxDir, FileName(<<"my_music">>, "wav"))
InitMix ==
    /\ mode = "mix" /\ pc = "add_background_music"
    /\ pydub = TRUE
    /\ audio_files = <<>> /\ out_name = NoName /\ add_silence = FALSE
    /\ io = Io(TRUE, TRUE, TRUE, TRUE, TRUE)
    /\ \E d \in 1..MaxDur :
          \/ /\ fs = [p \in {ShowPath} |-> Content("wav", <<>>, <<"show">>, d, <<>>)]
             /\ request \in {MixRequest(None), MixRequest(MusicPath)}
          \/ /\ \E m \in 1..(MaxDur + 1) :
                   fs = [p \in {ShowPath, MusicPath} |->
                            IF p = ShowPath THEN Content("wav", <<>>, <<"show">>, d, <<>>)
                            ELSE Content("wav", <<>>, <<"my_music">>, m, <<>>)]
             /\ request = MixRequest(MusicPath)
    /\ cfg = Cfg(FALSE, FALSE, FALSE)
    /\ audio_file_path = ShowPath /\ current_audio = ShowPath
    /\ result = None /\ results = <<>> /\ attempts = <<>>
    /\ stage_log = <<>> /\ prod_result = None
    /\ no_sfx = FALSE /\ final_audio_path = None /\ exit_code = Running
    /\ built = NoBuilt
    /\ manager = NoManager /\ config = RadioConfig /\ generator = NoGenerator

\* every variable of the stitching, effects and command-line runs at rest
Rest ==
    /\ pydub = TRUE
    /\ audio_files = <<>> /\ out_name = NoName /\ add_silence = FALSE
    /\ io = Io(TRUE, TRUE, TRUE, TRUE, TRUE)
    /\ cfg = Cfg(FALSE, FALSE, FALSE) /\ audio_file_path = None /\ current_audio = None
    /\ result = None /\ results = <<>> /\ attempts = <<>>
    /\ stage_log = <<>> /\ prod_result = None
    /\ no_sfx = FALSE /\ final_audio_path = None /\ exit_code = Running
    /\ request = NoRequest /\ built = NoBuilt

\* a new CustomVoiceManager, about to be asked for the voices
InitVoices ==
    /\ mode = "voices" /\ pc = "list_all_voices"
    /\ Rest /\ fs = <<>>
    /\ manager = NewManager /\ config = RadioConfig /\ generator = NoGenerator

\* a new RadioConfig, about to have voices assigned
InitConfig ==
    /\ mode = "config" /\ pc = "update_voice_mapping"
    /\ Rest /\ fs = <<>>
    /\ manager = NoManager /\ config = RadioConfig /\ generator = NoGenerator

\* the segments of a call of generate_segment_audio: the keys of the
\* scripts dict, in its order
SegmentLists ==
    {s \in UNION {[1..n -> OrderRoles] : n \in 0..Len(segment_order)} :
        \A i, j \in 1..Len(s) : i # j => s[i] # s[j]}

\* generate_segment_audio called with the mapping main builds from the
\* configuration (default, or after --voice-dj), or with no mapping
InitGenerate ==
    /\ mode = "generate" /\ pc = "generate_segment_audio"
    /\ Rest /\ fs = <<>>
    /\ manager = NoManager
    /\ config \in {RadioConfig, UpdateVoiceMappingResult(RadioConfig, "dj", "voice_a")}
    /\ \E segments \in SegmentLists :
          \/ generator = Generator(segments, VoiceMapping(config, segments), <<>>,
                                   NotReturned)
          \/ /\ config = RadioConfig
             /\ generator = Generator(segments, DefaultVoiceMapping, <<>>, NotReturned)

Init ==
    \/ InitStitch \/ InitFallback \/ InitProd \/ InitMain \/ InitBuilder \/ InitMix
    \/ InitVoices \/ InitConfig \/ InitGenerate

Next ==
    \/ StitchSegments
    \/ SimpleMp3Concat
    \/ CreateM3uPlaylist
    \/ StepBgMusic
    \/ StepJingle
    \/ StepApplause
    \/ FinalWrite
    \/ MainImport
    \/ MainGenerate
    \/ MainSelect
    \/ MainSummary
    \/ CreateRadioJingle
    \/ CreateApplauseEffect
    \/ CreateBackgroundMusic
    \/ AddBackgroundMusicCall
    \/ ListAllVoices
    \/ UpdateVoiceMapping
    \/ GenerateSegmentAudio

Spec == Init /\ [][Next]_vars

\* the calls of create_full_production alone; they are sequential code: a
\* call that can take its next step takes it
NextProd ==
    \/ StepBgMusic
    \/ StepJingle
    \/ StepApplause
    \/ FinalWrite
ProdSpec == InitProd /\ [][NextProd]_vars /\ WF_vars(NextProd)

\* ============================================================== claims
\* the roles of segment_order that the dict holds
Present == Keys(audio_files) \cap OrderRoles
\* ... and whose file the engine loads
Loaded == {r \in Present : CanLoad(fs, Lookup(audio_files, r))}
Pos(role) == CHOOSE k \in 1..Len(segment_order) : segment_order[k] = role
RECURSIVE SumSeq(_)
SumSeq(s) == IF s = <<>> THEN 0 ELSE Head(s) + SumSeq(Tail(s))
InOrder(S) == SelectSeq(segment_order, LAMBDA r : r \in S)
DurSum(S) == SumSeq([k \in 1..Len(InOrder(S)) |-> fs[Lookup(audio_files, InOrder(S)[k])].dur])
StitchDone == mode = "stitch" /\ pc = "done"
WroteAudio == result # None /\ Exists(fs, result) /\ fs[result].kind = "wav"

\* C1: with silence enabled and N >= 1 roles present and loaded, the
\* combined audio lasts the sum of the loaded segments plus (N-1) silences:
\* no silence follows the last present segment.
C1_SilenceOnlyBetweenPresent ==
    (StitchDone /\ pydub /\ add_silence /\ Loaded # {} /\ WroteAudio)
        => fs[result].dur = DurSum(Loaded) + (Cardinality(Loaded) - 1) * silence_duration

\* C7: when no role is present or none loads, stitch_segments exports no
\* audio file; it returns what the playlist fallback returns (the playlist's
\* path, or None when the playlist cannot be written) and raises nothing.
C7_EmptyAssemblyFallsBack ==
    (StitchDone /\ pydub /\ Loaded = {})
        => /\ \A p \in DOMAIN fs : fs[p].kind # "wav"
           /\ IF io.playlist
              THEN /\ result # None /\ Exists(fs, result)
                   /\ fs[result].kind = "text"
                   /\ Len(fs[result].entries) = Cardinality(Present)
              ELSE result = None

C7_Witness ==
    /\ StitchDone /\ pydub /\ Loaded = {} /\ Present # {}
    /\ result # None /\ fs[result].kind = "text"

\* C8: with 1 or 2 of the 3 roles present (and loading, and the export
\* succeeding) the assembly produces an audio file that holds exactly the
\* present segments in the fixed order and is shorter than any full show.
C8_PartialInputStillAssembles ==
    (StitchDone /\ pydub /\ Cardinality(Present) \in {1, 2} /\ Loaded = Present
       /\ io.export)
        => /\ WroteAudio
           /\ SelectSeq(fs[result].tl, LAMBDA a : a # "silence") = InOrder(Present)
           /\ fs[result].dur <
                 DurSum(Present) + Cardinality(OrderRoles \ Present)
                 + (IF add_silence THEN (Len(segment_order) - 1) * silence_duration ELSE 0)

C8_Witness ==
    /\ StitchDone /\ pydub /\ Present = {"intro", "fan_mail"} /\ Loaded = Present
    /\ WroteAudio /\ fs[result].tl = <<"intro", "silence", "fan_mail">>

\* ------------------------------------------------ fallback concatenator
FallbackDone == mode = "fallback" /\ pc = "done"
ConcatPath == Join(AudioDir, ConcatName)
M3uPath == Join(AudioDir, M3uName)
ConcatReturned == \E k \in 1..Len(results) : results[k] = <<"Simple MP3 Concat", ConcatPath>>
M3uReturned == \E k \in 1..Len(results) : results[k] = <<"M3U Playlist", M3uPath>>
SourcesThere == \A r \in Present : Exists(fs, Lookup(audio_files, r))

\* C6: both strategies are called on every call, and the returned list
\* holds exactly the artifacts of those that succeeded: a failed
\* concatenation does not stop the playlist, nor the reverse.
C6_BothStrategiesIndependent ==
    FallbackDone
        => /\ attempts = <<"Simple MP3 Concat", "M3U Playlist">>
           /\ results =
                 (IF io.concat /\ SourcesThere
                  THEN <<(<<"Simple MP3 Concat", ConcatPath>>)>> ELSE <<>>)
                 \o (IF io.m3u THEN <<(<<"M3U Playlist", M3uPath>>)>> ELSE <<>>)
           /\ \A k \in 1..Len(results) : Exists(fs, results[k][2])

C6_Witness ==
    /\ FallbackDone /\ ~SourcesThere /\ io.concat
    /\ results = <<(<<"M3U Playlist", M3uPath>>)>>

\* C9: the concatenated file holds exactly the bytes of the present roles'
\* files in the order intro, top_songs, fan_mail, whatever the order of the
\* dict's items; absent roles and roles outside the list add nothing.
SourceBytes(role) ==
    IF HasKey(audio_files, role) THEN fs[Lookup(audio_files, role)].bytes ELSE <<>>
C9_RawConcatInFixedOrder ==
    (mode = "fallback" /\ ConcatReturned)
        => fs[ConcatPath].bytes =
              SourceBytes("intro") \o SourceBytes("top_songs") \o SourceBytes("fan_mail")

C9_Witness ==
    /\ FallbackDone /\ ConcatReturned /\ Len(audio_files) = 3
    /\ audio_files[1][1] = "fan_mail" /\ audio_files[2][1] = "outro"
    /\ audio_files[3][1] = "intro"
    /\ Len(fs[ConcatPath].bytes) = 2 * MaxBytes

\* C10: a playlist written in degraded mode lists exactly one entry per
\* present role, in the fixed order, each naming the role's source file;
\* with 2 present segments the concatenated file and a playlist of 2
\* entries are both produced.
ListsPresent(entries) ==
    /\ Len(entries) = Cardinality(Present)
    /\ \A r \in Present : \E k \in 1..Len(entries) :
          /\ entries[k].role = r
          /\ entries[k].file = FileName(<<r, Timestamp>>, "mp3")
    /\ \A j, k \in 1..Len(entries) : j < k => Pos(entries[j].role) < Pos(entries[k].role)
C10_ManifestListsPresent ==
    /\ (mode = "fallback" /\ M3uReturned) => ListsPresent(fs[M3uPath].entries)
    /\ (StitchDone /\ ~pydub /\ result # None) => ListsPresent(fs[result].entries)
    /\ (FallbackDone /\ Cardinality(Present) = 2 /\ SourcesThere /\ io.concat /\ io.m3u)
          => /\ ConcatReturned /\ M3uReturned
             /\ fs[ConcatPath].kind = "raw"
             /\ Len(fs[M3uPath].entries) = 2

C10_Witness ==
    /\ FallbackDone /\ Present = {"top_songs", "fan_mail"} /\ HasKey(audio_files, "outro")
    /\ audio_files[1][1] = "fan_mail"
    /\ ConcatReturned /\ M3uReturned /\ Len(fs[M3uPath].entries) = 2

\* -------------------------------------------------- production pipeline
StageEnabled(stage) ==
    CASE stage = "bg_music" -> cfg.include_bg_music
      [] stage = "jingle" -> cfg.include_jingle
      [] stage = "applause" -> cfg.include_applause
      [] OTHER -> TRUE
ExpectedStages ==
    SelectSeq(<<"bg_music", "jingle", "applause">>, StageEnabled) \o <<"final">>
StageNames == [k \in 1..Len(stage_log) |-> stage_log[k].stage]
PipelineReturned ==
    \/ mode = "prod" /\ pc = "done"
    \/ mode = "main" /\ pc \in {"summary", "exit"} /\ audio_file_path # None
FinalWriteFailed ==
    \E k \in 1..Len(stage_log) : stage_log[k].stage = "final" /\ stage_log[k].failed

\* C2: with the audio engine unavailable, a command-line run attempts no
\* engine-backed stage and ends successfully with the fallback artifacts.
C2_EngineUnavailableDegrades ==
    (mode = "main" /\ pc = "exit" /\ ~pydub)
        => /\ stage_log = <<>>
           /\ exit_code = ExitSuccess
           /\ results # <<>>

\* C3: a background-music, jingle or applause stage that fails returns the
\* path it was given and changes no file that existed; the production goes
\* on, and the stage that runs next is given that same path.
C3_FailedStagePassesInputThrough ==
    [][(Len(stage_log') = Len(stage_log) + 1)
          => LET new == stage_log'[Len(stage_log')] IN
             /\ (Len(stage_log) > 0
                   => new.input = (IF stage_log[Len(stage_log)].failed
                                   THEN stage_log[Len(stage_log)].input
                                   ELSE stage_log[Len(stage_log)].output))
             /\ (new.stage # "final" /\ new.failed)
                   => /\ new.output = new.input
                      /\ current_audio' = current_audio
                      /\ \A p \in DOMAIN fs : p \in DOMAIN fs' /\ fs'[p] = fs[p]
                      /\ pc' \in {"jingle", "applause", "final"}]_vars

C3_Witness ==
    /\ mode = "prod" /\ Len(stage_log) >= 3
    /\ stage_log[1].stage = "bg_music" /\ stage_log[1].failed
    /\ stage_log[2].stage = "jingle" /\ stage_log[2].failed
    /\ stage_log[3].stage = "applause" /\ ~stage_log[3].failed
    /\ stage_log[3].input = stage_log[1].input
    /\ CanLoad(fs, stage_log[1].input)

\* C4: when the final production file cannot be written, the command-line
\* run does not end as a success.
C4_FinalWriteFailureIsFailure ==
    (mode = "main" /\ pc = "exit" /\ FinalWriteFailed) => exit_code = ExitFailure

\* C5: the stages that run are the enabled ones among background music,
\* jingle, applause, in that order and once each, followed by the final
\* write.
C5_FixedStageOrder ==
    /\ Len(StageNames) <= Len(ExpectedStages)
    /\ StageNames = SubSeq(ExpectedStages, 1, Len(StageNames))
    /\ PipelineReturned => StageNames = ExpectedStages

C5_Witness ==
    /\ mode = "prod" /\ pc = "done"
    /\ StageNames = <<"bg_music", "jingle", "applause", "final">>
    /\ \A k \in 1..Len(stage_log) : ~stage_log[k].failed

\* files that only an effect stage writes: a generated effect in the sfx
\* directory, or a stage's "..._with_<effect>.wav"
IsEffectFile(p) ==
    \/ p.dir = SfxDir
    \/ /\ Len(p.name.stem) > 0
       /\ p.name.stem[Len(p.name.stem)] \in {"with_bg_music", "with_jingle", "with_applause"}
AllEffectsOff == ~cfg.include_bg_music /\ ~cfg.include_jingle /\ ~cfg.include_applause
FinalPath == Join(AudioDir, FinalName)

\* C11: with background music, jingle and applause all disabled, the
\* pipeline runs no effect stage and writes no effect file, and the file it
\* returns has the duration and the content of the assembled input: the
\* final file is an unmodified re-export of the input.
C11_AllOffPassesThrough ==
    (PipelineReturned /\ AllEffectsOff)
        => /\ StageNames = <<"final">>
           /\ \A p \in DOMAIN fs : ~IsEffectFile(p)
           /\ current_audio = audio_file_path
           /\ (~FinalWriteFailed
                 => /\ stage_log[1].output = FinalPath
                    /\ fs[FinalPath].dur = fs[audio_file_path].dur
                    /\ fs[FinalPath].tl = fs[audio_file_path].tl)
           /\ (FinalWriteFailed => stage_log[1].output = audio_file_path)

C11_Witness ==
    /\ mode = "prod" /\ pc = "done" /\ AllEffectsOff
    /\ prod_result = FinalPath /\ Exists(fs, FinalPath)
    /\ fs[FinalPath].dur = MaxDur /\ fs[FinalPath].tl = <<"show">>
    /\ DOMAIN fs = {ShowPath, FinalPath}

\* the applause stage ran and added its effect
ApplauseAdded ==
    \E k \in 1..Len(stage_log) : stage_log[k].stage = "applause" /\ ~stage_log[k].failed

\* C12: the applause that the pipeline adds is built with the intensity
\* set in the configuration (light, medium or heavy).
C12_ApplauseUsesConfiguredIntensity ==
    (mode = "prod" /\ ApplauseAdded)
        => /\ Exists(fs, ApplausePath(cfg.applause_intensity))
           /\ \A i \in Intensities \ {cfg.applause_intensity} : ~Exists(fs, ApplausePath(i))

\* ------------------------------------------------------ effect builders
BuilderDone(builder) == mode = "builder" /\ pc = "done" /\ request.builder = builder

C14_ApplauseLength ==
    (BuilderDone("create_applause_effect") /\ request.duration_ms > 0 /\ result # None)
        => fs[result].dur = request.duration_ms

C16_NoSilenceWhenDisabled ==
    (StitchDone /\ pydub /\ ~add_silence /\ WroteAudio)
        => /\ fs[result].dur = DurSum(Loaded)
           /\ fs[result].tl = InOrder(Loaded)

C16_Witness ==
    /\ StitchDone /\ pydub /\ ~add_silence /\ WroteAudio
    /\ Loaded = OrderRoles
    /\ fs[result].tl = segment_order
    /\ fs[result].dur = 3 * MaxDur

\* C17: a builder called with duration_ms <= 0 is rejected: it produces no
\* file and returns no path.
C17_NonPositiveDurationRejected ==
    (mode = "builder" /\ pc = "done" /\ request.duration_ms <= 0)
        => /\ result = None
           /\ DOMAIN fs = {}

\* position pos lies within a twelfth of the duration of sixths/6 of it
AboutSixths(pos, sixths, duration) ==
    LET off == 6 * pos - sixths * duration
    IN 2 * (IF off < 0 THEN 0 - off ELSE off) <= duration

\* C18: for every requested duration, exactly three sparkles are overlaid
\* on the jingle, at about 1/6, 1/2 and 5/6 of its duration.
C18_ThreeSparklesAtSixths ==
    (BuilderDone("create_radio_jingle") /\ request.duration_ms > 0)
        => /\ Len(built.sparkles) = 3
           /\ AboutSixths(built.sparkles[1], 1, AudioLen(built.audio))
           /\ AboutSixths(built.sparkles[2], 3, AudioLen(built.audio))
           /\ AboutSixths(built.sparkles[3], 5, AudioLen(built.audio))

\* ------------------------------------------------ add_background_music
MixDone == mode = "mix" /\ pc = "done"
MusicAdded == MixDone /\ result = StageOutput(audio_file_path, "with_bg_music")

\* C19: the output of add_background_music lasts as long as the main
\* audio, whether the music is generated or supplied by the caller, shorter
\* or longer than the show: the spoken content is neither cut nor extended.
C19_MusicKeepsShowLength ==
    MusicAdded
        => /\ fs[result].dur = fs[audio_file_path].dur
           /\ fs[result].tl = <<"bg_music_under">> \o fs[audio_file_path].tl

\* C20: the pipeline's jingle stage puts the jingle before and after its
\* input: the output is jingle + input + jingle, it lasts the input's
\* duration plus twice the jingle's, and the input's content lies unchanged
\* between the two jingles.
C20_JingleAtBothEnds ==
    \A k \in 1..Len(stage_log) :
        (stage_log[k].stage = "jingle" /\ ~stage_log[k].failed)
            => /\ Exists(fs, JinglePath)
               /\ fs[stage_log[k].output].tl =
                     <<"jingle">> \o fs[stage_log[k].input].tl \o <<"jingle">>
               /\ fs[stage_log[k].output].dur =
                     fs[stage_log[k].input].dur + 2 * fs[JinglePath].dur

C20_Witness ==
    /\ mode = "prod" /\ pc = "done" /\ Len(stage_log) >= 2
    /\ stage_log[1].stage = "bg_music" /\ ~stage_log[1].failed
    /\ stage_log[2].stage = "jingle" /\ ~stage_log[2].failed
    /\ fs[stage_log[2].output].tl = <<"jingle", "bg_music_under", "show", "jingle">>
    /\ fs[stage_log[2].output].dur = MaxDur + 2 * JingleDefaultMs

\* C21: the applause is built from exactly 10 parts of equal length, cut
\* from the noise one after the other and recombined in that order; the
\* base volume offset is -30, -20 or -10 dB for light, medium or heavy, and
\* each part's random offset lies in [-8, +3] dB.
C21_ApplauseParts ==
    (BuilderDone("create_applause_effect") /\ request.duration_ms > 0)
        => /\ Len(built.parts) = 10
           /\ \A k \in 1..Len(built.parts) :
                 /\ built.parts[k].len = built.parts[1].len
                 /\ built.parts[k].start = (k - 1) * built.parts[1].len
                 /\ built.parts[k].variation >= 0 - 8
                 /\ built.parts[k].variation <= 3
                 /\ built.parts[k].base =
                       (CASE request.intensity = "light" -> 0 - 30
                          [] request.intensity = "medium" -> 0 - 20
                          [] request.intensity = "heavy" -> 0 - 10)

C21_Witness ==
    /\ BuilderDone("create_applause_effect") /\ result # None
    /\ request.intensity = "heavy" /\ request.duration_ms > 5000
    /\ built.parts[1].variation = 3 /\ built.parts[2].variation = 0 - 8
    /\ built.parts[10].start = 4500 /\ built.parts[1].base = 0 - 10

\* C22: in a production run no stage writes to a file that exists already:
\* each of raw concatenation, manifest, background music, jingle, applause
\* and final write creates a file of its own name and leaves the file it
\* read and the files of the other stages as they were.
C22_StagesWriteDistinctFiles ==
    [][(mode \in {"main", "prod"})
          => (\A p \in DOMAIN fs : p \in DOMAIN fs' /\ fs'[p] = fs[p])]_vars

C22_Witness ==
    /\ mode = "main" /\ pc = "exit"
    /\ StageNames = <<"bg_music", "jingle", "applause", "final">>
    /\ \A k \in 1..Len(stage_log) : ~stage_log[k].failed
    /\ Exists(fs, ConcatPath) /\ Exists(fs, M3uPath)
    /\ Cardinality({stage_log[k].output : k \in 1..4}
                    \cup {stage_log[1].input, ConcatPath, M3uPath}) = 6
    /\ Cardinality(DOMAIN fs) = 12

\* C23: every call of create_full_production, whatever stages are enabled
\* and whichever of them fail, comes to its end: by then each enabled stage
\* was attempted exactly once, in order, and a path was returned.
C23_PipelineTerminates ==
    (mode = "prod")
        ~> (/\ mode = "prod" /\ pc = "done"
            /\ StageNames = ExpectedStages
            /\ prod_result \in {FinalPath, audio_file_path})

C23_Witness ==
    /\ mode = "prod" /\ pc = "done"
    /\ StageNames = <<"bg_music", "jingle", "applause", "final">>
    /\ \A k \in 1..Len(stage_log) : stage_log[k].failed
    /\ prod_result = audio_file_path

\* C24: list_all_voices serves the cached data, without calling the API,
\* exactly when refresh_cache is false and the cache was filled less than
\* 300 seconds before the call; in every other case it fetches, and a
\* fetch that fails or brings nothing leaves the cache as it was.
C24_CacheServedOnlyWhenFresh ==
    [][(mode = "voices" /\ manager'.calls = manager.calls + 1) =>
        (LET age == manager'.current_time - manager.cache_timestamp
             filled == manager.voice_cache # NoData
         IN /\ (~manager'.fetched)
                  <=> (~manager'.refresh_cache /\ filled /\ age < CacheSeconds)
            /\ (~manager'.fetched) => (manager'.returned = manager.voice_cache)
            /\ (manager'.fetched /\ manager'.returned = EmptyDict)
                  => (/\ manager'.voice_cache = manager.voice_cache
                      /\ manager'.cache_timestamp = manager.cache_timestamp))]_vars

\* C25: a path ending in .wav that stitch_segments returns names audio the
\* engine exported, and the text playlist is only ever written under a
\* .txt name: on every route into the fallback, with or without an output
\* filename of the caller's.
C25_WavIsAlwaysAudio ==
    StitchDone
        => /\ (result # None /\ result.name.ext = "wav") => WroteAudio
           /\ \A p \in DOMAIN fs : fs[p].kind = "text" => p.name.ext = "txt"

\* the roles that load and are not the last of segment_order: the code
\* puts a silence after each of them
SilenceFollowed == {r \in Loaded : Pos(r) < Len(segment_order)}

\* C26: when a present role fails to load while another loads (and the
\* export works), the assembly is exported all the same: it holds the
\* loaded roles in the fixed order and nothing of the failed role, neither
\* its audio nor a silence for it; the playlist fallback is not taken.
C26_UnloadableRoleSkipped ==
    (StitchDone /\ pydub /\ io.export /\ Loaded # {} /\ Loaded # Present)
        => /\ WroteAudio
           /\ SelectSeq(fs[result].tl, LAMBDA a : a # "silence") = InOrder(Loaded)
           /\ fs[result].dur = DurSum(Loaded)
                + (IF add_silence THEN Cardinality(SilenceFollowed) ELSE 0)
                    * silence_duration
           /\ \A p \in DOMAIN fs : fs[p].kind # "text"

C26_Witness ==
    /\ StitchDone /\ pydub /\ add_silence
    /\ Present = OrderRoles /\ Loaded = {"intro", "fan_mail"}
    /\ WroteAudio /\ fs[result].tl = <<"intro", "silence", "fan_mail">>

\* C27: the audio input that apply_sound_effects gives create_full_production
\* is the raw concatenated show, never the playlist manifest, whichever
\* fallback strategy succeeded or failed.
C27_EffectsInputIsConcatenation ==
    (mode = "main" /\ audio_file_path # None)
        => /\ audio_file_path = ConcatPath
           /\ Exists(fs, audio_file_path) /\ fs[audio_file_path].kind = "raw"

\* C28: after update_voice_mapping(role, v) for one of the roles dj, fan,
\* guest, announcer, get_voice_for_segment returns v for every segment of
\* that role.
C28_RoleUpdateReachesSegments ==
    (mode = "config" /\ config.updated.key \in VoiceRoleNames)
        => \A segment_name \in SegmentNames :
              RoleOfSegment(segment_name) = config.updated.key
                 => GetVoiceForSegment(config, segment_name) = config.updated.voice_id

GenerateDone == mode = "generate" /\ pc = "done"

\* C29: generate_segment_audio returns either a mapping that holds a saved
\* file for every requested segment, or None; it returns None exactly when
\* a synthesis failed, and after the first failure no later segment is
\* synthesised.
C29_AllOrNothing ==
    GenerateDone
        => LET segments == generator.segments
               calls == generator.calls
               returned == generator.returned
           IN /\ returned.kind \in {"dict", "none"}
              /\ Len(calls) <= Len(segments)
              /\ \A k \in 1..Len(calls) :
                    /\ calls[k].segment_name = segments[k]
                    /\ k < Len(calls) => calls[k].ok
              /\ returned.kind = "dict"
                    => /\ Len(calls) = Len(segments)
                       /\ \A k \in 1..Len(calls) : calls[k].ok
                       /\ returned.items =
                             [k \in 1..Len(segments) |->
                                 <<segments[k], SegmentPath(segments[k])>>]
                       /\ \A k \in 1..Len(segments) :
                             Exists(fs, SegmentPath(segments[k]))
              /\ returned.kind = "none"
                    => /\ Len(calls) >= 1
                       /\ ~calls[Len(calls)].ok

C29_Witness ==
    /\ GenerateDone
    /\ Len(generator.segments) = 3
    /\ generator.returned.kind = "none"
    /\ Len(generator.calls) = 2
    /\ Exists(fs, SegmentPath(generator.segments[1]))

AllEffectsOn == cfg.include_bg_music /\ cfg.include_jingle /\ cfg.include_applause
AllStagesWorked ==
    /\ StageNames = <<"bg_music", "jingle", "applause", "final">>
    /\ \A k \in 1..Len(stage_log) : ~stage_log[k].failed

\* C30: with background music, jingle and applause all enabled and every
\* stage succeeding, the final production lasts the show's duration plus
\* twice the jingle's (3000 ms) plus the applause's (5000 ms); the
\* background music adds nothing.
C30_FullProductionLength ==
    (PipelineReturned /\ AllEffectsOn /\ AllStagesWorked)
        => /\ Exists(fs, FinalPath)
           /\ fs[FinalPath].dur =
                 fs[audio_file_path].dur + 2 * JingleDefaultMs + ApplauseDefaultMs
           /\ fs[stage_log[1].output].dur = fs[audio_file_path].dur

C30_Witness ==
    /\ mode = "prod" /\ pc = "done" /\ AllEffectsOn /\ AllStagesWorked
    /\ prod_result = FinalPath
    /\ fs[audio_file_path].dur = MaxDur
    /\ fs[FinalPath].dur = MaxDur + 11000
    /\ fs[FinalPath].tl =
          <<"jingle", "bg_music_under", "show", "jingle", "applause">>

====
